---- MODULE Spec2Model ----
(***************************************************************************)
(* A model of the carousel generator: the text compositor                  *)
(* (src/src/image_compositor/compositor.py), the image generator           *)
(* (src/src/image_generator/imagen_api.py) and the workflow that drives    *)
(* them (src/main.py).                                                     *)
(*                                                                         *)
(* A text is a sequence of one-character strings.  Pixel lengths that      *)
(* Pillow reports as floats (textlength) are carried in units of 1/64 px,  *)
(* the precision FreeType advances have; boxes (textbbox) are whole px.    *)
(***************************************************************************)
EXTENDS Integers, Sequences, FiniteSets, TLC

(***************************************************************************)
(* Bounds of the model.                                                    *)
(***************************************************************************)
\* longest title, body or headline text, in characters
MaxTextLen == 3
\* longest text handed to the wrapping step when it is checked on its own
MaxWrapLen == 5
\* widest wrap width tried when the wrapping step is checked on its own
MaxWrapWidth == 4
\* most articles fetch_headlines returns
MaxArticles == 2
\* most symbolic slides of one strategy
MaxSlides == 1
MaxCalls == 3
MaxRuns == 2
MaxClock == 2

(***************************************************************************)
(* textwrap.wrap(text, width=W) with the defaults the compositor leaves    *)
(* in place: break_long_words, break_on_hyphens, drop_whitespace,          *)
(* replace_whitespace (CPython 3.11 Lib/textwrap.py).                      *)
(***************************************************************************)
Letters == {"a", "h"}
Whitespace == {" "}
Hyphen == "-"
Alphabet == Letters \cup Whitespace \cup {Hyphen}

\* the character at position i, "" off either end
At(t, i) == IF i >= 1 /\ i <= Len(t) THEN t[i] ELSE ""

IsLetter(c) == c \in Letters
IsWs(c) == c \in Whitespace

RECURSIVE Concat(_)
Concat(ss) == IF ss = <<>> THEN <<>> ELSE Head(ss) \o Concat(Tail(ss))

\* last position of the run of characters satisfying the class of t[p]
RECURSIVE RunEnd(_, _, _)
RunEnd(t, p, ws) ==
    IF p + 1 <= Len(t) /\ (IF ws THEN IsWs(t[p + 1]) ELSE t[p + 1] = Hyphen)
    THEN RunEnd(t, p + 1, ws) ELSE p

\* wordsep_re, "em-dash between words": a run of two or more hyphens
\* starting at p, after a word character and before a word character
EmDashAt(t, p) ==
    /\ At(t, p) = Hyphen
    /\ IsLetter(At(t, p - 1))
    /\ RunEnd(t, p, FALSE) >= p + 1
    /\ IsLetter(At(t, RunEnd(t, p, FALSE) + 1))

\* wordsep_re, "hyphenated word": the hyphen at q ends a chunk
HyphenBreak(t, q) ==
    /\ At(t, q) = Hyphen
    /\ \/ IsLetter(At(t, q - 2)) /\ IsLetter(At(t, q - 1))
       \/ IsLetter(At(t, q - 3)) /\ At(t, q - 2) = Hyphen /\ IsLetter(At(t, q - 1))
    /\ IsLetter(At(t, q + 1))
    /\ \/ IsLetter(At(t, q + 2))
       \/ At(t, q + 2) = Hyphen /\ IsLetter(At(t, q + 3))

\* wordsep_re, "word, possibly hyphenated": last position of the chunk that
\* starts at p, having consumed the k characters p .. p+k-1 (lazy match)
RECURSIVE WordEnd(_, _, _)
WordEnd(t, p, k) ==
    IF HyphenBreak(t, p + k) THEN p + k
    ELSE IF p + k > Len(t) \/ IsWs(At(t, p + k)) THEN p + k - 1
    ELSE IF IsLetter(At(t, p + k - 1)) /\ At(t, p + k) = Hyphen
            /\ RunEnd(t, p + k, FALSE) >= p + k + 1
            /\ IsLetter(At(t, RunEnd(t, p + k, FALSE) + 1)) THEN p + k - 1
    ELSE WordEnd(t, p, k + 1)

ChunkEnd(t, p) ==
    IF IsWs(t[p]) THEN RunEnd(t, p, TRUE)
    ELSE IF EmDashAt(t, p) THEN RunEnd(t, p, FALSE)
    ELSE WordEnd(t, p, 1)

\* TextWrapper._split: the chunks of t from position p on
RECURSIVE SplitFrom(_, _)
SplitFrom(t, p) ==
    IF p > Len(t) THEN <<>>
    ELSE <<SubSeq(t, p, ChunkEnd(t, p))>> \o SplitFrom(t, ChunkEnd(t, p) + 1)

Split(t) == SplitFrom(t, 1)

\* chunk.strip() == ''
IsBlank(chunk) == \A i \in 1..Len(chunk) : IsWs(chunk[i])

\* _wrap_chunks, inner loop: move chunks onto the current line while they fit
RECURSIVE Fill(_, _, _, _)
Fill(chunks, cur_line, cur_len, width) ==
    IF chunks # <<>> /\ cur_len + Len(Head(chunks)) <= width
    THEN Fill(Tail(chunks), Append(cur_line, Head(chunks)),
              cur_len + Len(Head(chunks)), width)
    ELSE [chunks |-> chunks, cur_line |-> cur_line, cur_len |-> cur_len]

\* chunk.rfind('-', 0, space_left): the last hyphen among the first
\* space_left characters, 0 when there is none (positions from 1)
RECURSIVE RFindHyphen(_, _)
RFindHyphen(chunk, n) ==
    IF n <= 0 THEN 0
    ELSE IF n <= Len(chunk) /\ chunk[n] = Hyphen THEN n
    ELSE RFindHyphen(chunk, n - 1)

\* _handle_long_word with break_long_words: how many characters of the
\* chunk go onto the current line
LongWordCut(chunk, space_left) ==
    LET hy == RFindHyphen(chunk, space_left)
    IN  IF Len(chunk) > space_left /\ hy > 1
           /\ (\E i \in 1..(hy - 1) : chunk[i] # Hyphen)
        THEN hy ELSE space_left

HandleLongWord(f, width) ==
    LET chunk == Head(f.chunks)
        space_left == IF width < 1 THEN 1 ELSE width - f.cur_len
        end == LongWordCut(chunk, space_left)
    IN  [chunks |-> <<SubSeq(chunk, end + 1, Len(chunk))>> \o Tail(f.chunks),
         cur_line |-> Append(f.cur_line, SubSeq(chunk, 1, end))]

\* _wrap_chunks, outer loop
RECURSIVE WrapChunks(_, _, _)
WrapChunks(chunks, width, lines) ==
    IF chunks = <<>> THEN lines
    ELSE LET start == IF IsBlank(Head(chunks)) /\ lines # <<>>
                      THEN Tail(chunks) ELSE chunks
             f == Fill(start, <<>>, 0, width)
             g == IF f.chunks # <<>> /\ Len(Head(f.chunks)) > width
                  THEN HandleLongWord(f, width)
                  ELSE [chunks |-> f.chunks, cur_line |-> f.cur_line]
             n == Len(g.cur_line)
             kept == IF n > 0 /\ IsBlank(g.cur_line[n])
                     THEN SubSeq(g.cur_line, 1, n - 1) ELSE g.cur_line
         IN  WrapChunks(g.chunks, width,
                        IF kept # <<>> THEN Append(lines, Concat(kept)) ELSE lines)

\* a call that hands textwrap one column too many
WrapOffByOne(text, width) == WrapChunks(Split(text), width + 1, <<>>)

\* textwrap.wrap(text, width) for width > 0 (width <= 0 raises ValueError)
Wrap(text, width) == WrapChunks(Split(text), width, <<>>)

(***************************************************************************)
(* Font metrics, as Pillow reports them for the fonts of the fonts         *)
(* directory.  A face gives each character its advance and the top and     *)
(* bottom of its ink below the ascender line, in percent of the point      *)
(* size.  "zero" and "negative" are the degenerate faces whose reference   *)
(* glyph measures 0 or less.                                               *)
(***************************************************************************)
Faces == {"inter", "zero", "negative"}

AdvPct(face, c) ==
    IF face = "zero" THEN 0
    ELSE IF face = "negative" THEN 0 - 2
    ELSE CASE c = "a" -> 56 [] c = "h" -> 60 [] c = "A" -> 68
           [] c = "-" -> 40 [] OTHER -> 28

TopPct(c) == CASE c = "a" -> 42 [] c = "-" -> 60 [] OTHER -> 24

BotPct(c) == CASE c = "-" -> 68 [] OTHER -> 97

\* draw.textlength(line, font): the sum of the advances, in 1/64 px
RECURSIVE TextLength(_, _, _)
TextLength(face, size, line) ==
    IF line = <<>> THEN 0
    ELSE ((AdvPct(face, Head(line)) * size * 64) \div 100)
         + TextLength(face, size, Tail(line))

Min(S) == CHOOSE x \in S : \A y \in S : x <= y
Max(S) == CHOOSE x \in S : \A y \in S : x >= y

Ink(line) == {i \in 1..Len(line) : ~IsWs(line[i])}

\* draw.textbbox((0, 0), line, font): the ink box (left, top, right, bottom)
\* of the line drawn at the origin, in px; the empty box for no ink.  The
\* ink starts at the origin and ends within the advance of the last glyph.
TextBBox(face, size, line) ==
    IF Ink(line) = {} THEN <<0, 0, 0, 0>>
    ELSE <<0,
           Min({(TopPct(line[i]) * size) \div 100 : i \in Ink(line)}),
           IF TextLength(face, size, line) > 0
           THEN TextLength(face, size, line) \div 64 ELSE 0,
           Max({(BotPct(line[i]) * size) \div 100 : i \in Ink(line)})>>

(***************************************************************************)
(* The compositor: create_branded_headline_slide and add_text_to_image.    *)
(***************************************************************************)
FontFiles == {"PlayfairDisplay-ExtraBold.ttf", "Inter-Bold.ttf", "Inter-Regular.ttf"}

\* no text at all: the argument is None
NoneText == <<"None">>

\* a local that no assignment has reached yet
Unbound == 0 - 1

headline_size == 80
title_size == 80
explanation_size == 45
headline_width == 1024
headline_height == 1024
padding == 30
space_between_blocks == 60
title_spacing == (title_size * 2) \div 10
exp_spacing == (explanation_size * 2) \div 10

VARIABLES
    \* the environment of a call
    fonts,          \* the fonts directory: font file -> "absent" | "corrupt" | "ok"
    face,           \* the metrics the font files carry
    bg,             \* the file at image_path: "missing" | "garbage" | "truncated" | "png" | "gif"
    img_width,      \* the width of the background image
    disk,           \* "ok" | "full": whether output_path can be written
    \* the call
    fn,             \* "headline" | "overlay"
    headline_text, slide_title, slide_text,
    pc, result, raised,
    \* what the call holds and leaves behind
    handle,         \* the opened background file: "none" | "open" | "garbage" | "closed"
    output,         \* the file at output_path: <<>> when absent, else what was drawn
    \* locals of the two functions
    wrap_at_char_count, wrap_title_at, wrap_exp_at, divisions,
    wrapped_text, wrapped_title, wrapped_explanation,
    total_height, max_line_width, bg_bbox, current_y, text_y, drawn,
    \* the wrapping step on its own: textwrap.wrap(wtext, width=wwidth)
    wtext, wwidth, wlines, wdone,
    \* run_workflow (src/main.py)
    articles,       \* how many articles fetch_headlines returned
    model,          \* imagen_api.model: TRUE when Vertex AI was configured
    wf_pc, post_num, slide_num,
    strategy,       \* the strategy record of the current article
    slide_args,     \* image_prompt, slide_title, slide_text as read from the slide record
    folder,         \* the files in the output folder
    wf_result,      \* "none" | "None" | "output_folder"
    wf_raised,      \* the exception that left run_workflow, "none" if none
    posts,          \* per article so far: its number of slides, Unbound if it was skipped
    attempted,      \* the slides <<post, slide>> the loop has reached
    failed,         \* the slides whose background or render failed
    captions,       \* the posts for which save_caption ran
    removed,        \* the background files os.remove deleted
    \* a caller that calls the render functions again and again
    calls,          \* how many render calls have returned
    kept,           \* an earlier call, remembered: its arguments and what it produced
    \* the workflow threads of concurrent /generate requests
    now,            \* the clock, in seconds
    run_pc,         \* where each run is
    run_folder,     \* the timestamp in the name of each run's output folder
    dirs,           \* the files on disk: <<folder, file, the run that wrote it last>>
    clashes,        \* the writes and removals that hit a file of another run
    \* generate_content_strategy under its retry decorator (strategist.py)
    st_pc, st_model,
    st_article,     \* the number of the article the strategy is generated for
    attempts,       \* how often the function body has run for this article
    st_exc,         \* the exception that left the function body, "none" if none
    st_ret,         \* what the decorated function gave its caller
    st_log,         \* what the model call did, call after call
    \* the thread of run_workflow_and_reply (app.py)
    th_pc,
    th_left,        \* the posts whose content is still to be sent
    th_exc,         \* the exception raised in the try block, "none" if none
    th_sent         \* the messages and photos submitted to the chat, in order

envvars == <<fonts, face, bg, img_width, disk>>
argvars == <<fn, headline_text, slide_title, slide_text>>
wrapvars == <<wrap_at_char_count, wrap_title_at, wrap_exp_at, divisions,
              wrapped_text, wrapped_title, wrapped_explanation>>
layoutvars == <<total_height, max_line_width, bg_bbox, current_y, text_y, drawn>>
cvars == <<envvars, argvars, pc, result, raised, handle, output, wrapvars, layoutvars>>
wvars == <<wtext, wwidth, wlines, wdone>>
fvars == <<articles, model, wf_pc, post_num, slide_num, strategy, slide_args, folder,
           wf_result, wf_raised, posts, attempted, failed, captions, removed>>
rvars == <<calls, kept>>
tvars == <<now, run_pc, run_folder, dirs, clashes>>
svars == <<st_pc, st_model, st_article, attempts, st_exc, st_ret, st_log>>
avars == <<th_pc, th_left, th_exc, th_sent>>
xvars == <<rvars, tvars, svars, avars>>
vars == <<cvars, wvars, fvars, xvars>>

\* one canvas for the whole process, reused by every call
ReusedCanvas == drawn

\* Image.new (lines 48 and 102): every call allocates its own, empty canvas
NewCanvas == <<>>

\* a handler that names the I/O errors only
CatchesIOErrors(exc) == exc \in {"OSError", "FileNotFoundError", "UnidentifiedImageError"}

\* `except Exception as e` (lines 88 and 201): every exception raised in the
\* body is an Exception
Catches(exc) == TRUE

\* the end of a call that raised exc inside the try block
Raise(exc) ==
    /\ pc' = "done"
    /\ IF Catches(exc)
       THEN result' = "False" /\ raised' = "none"
       ELSE result' = "none" /\ raised' = exc

Return(value) ==
    /\ pc' = "done"
    /\ result' = value
    /\ raised' = "none"

Goto(label) ==
    /\ pc' = label
    /\ UNCHANGED <<result, raised>>

\* a lookup that falls back to a default font when no candidate exists
FindFontOrDefault(dir, font_names) ==
    IF \E i \in 1..Len(font_names) : dir[font_names[i]] # "absent"
    THEN font_names[CHOOSE i \in 1..Len(font_names) : dir[font_names[i]] # "absent"]
    ELSE "default"

\* _find_font_file(font_names): the first name that exists, "" for None
RECURSIVE FindFontFile(_, _)
FindFontFile(dir, font_names) ==
    IF font_names = <<>> THEN ""
    ELSE IF dir[Head(font_names)] # "absent" THEN Head(font_names)
    ELSE FindFontFile(dir, Tail(font_names))

\* one fallback, the headline's, for every block
WrapWidthOneFallback(usable, avg_char_width, fallback) ==
    IF avg_char_width > 0 THEN (usable * 64) \div avg_char_width ELSE 20

\* int(usable / avg_char_width) if avg_char_width > 0 else fallback; the
\* measured width is in 1/64 px
WrapWidth(usable, avg_char_width, fallback) ==
    IF avg_char_width > 0 THEN (usable * 64) \div avg_char_width ELSE fallback

\* how many divisions evaluating WrapWidth performs
WrapDivisions(avg_char_width) == IF avg_char_width > 0 THEN 1 ELSE 0

\* textwrap.wrap as the compositor calls it: the exception it raises, or ""
WrapRaises(text, width) ==
    IF text = NoneText THEN "AttributeError"
    ELSE IF width <= 0 THEN "ValueError"
    ELSE ""

(* ---- add_text_to_image ------------------------------------------------ *)

\* lines 101-103: with Image.open(image_path).convert("RGBA") as img, and the
\* overlay the text is drawn on
\* Image.open opens the file; convert() loads it.  Loading a single-frame
\* file closes the file; a multi-frame file stays open, and so does one whose
\* decoding fails; the opened image itself is bound to no name.
OvOpen ==
    /\ fn = "overlay" /\ pc = "open"
    /\ CASE bg = "missing" -> Raise("FileNotFoundError") /\ UNCHANGED handle
         [] bg = "garbage" -> Raise("UnidentifiedImageError") /\ handle' = "closed"
         [] bg = "truncated" -> Raise("OSError") /\ handle' = "garbage"
         [] bg = "png" -> Goto("find_fonts") /\ handle' = "closed"
         [] bg = "gif" -> Goto("find_fonts") /\ handle' = "garbage"
    /\ drawn' = IF bg \in {"png", "gif"} THEN NewCanvas ELSE drawn
    /\ UNCHANGED <<wvars, fvars, xvars>>
    /\ UNCHANGED <<envvars, argvars, output, wrapvars, total_height, max_line_width,
                   bg_bbox, current_y, text_y>>

\* lines 105-112
OvFindFonts ==
    /\ fn = "overlay" /\ pc = "find_fonts"
    /\ IF FindFontFile(fonts, <<"Inter-Bold.ttf">>) = ""
          \/ FindFontFile(fonts, <<"Inter-Regular.ttf">>) = ""
       THEN Return("False")
       ELSE Goto("load_fonts")
    /\ UNCHANGED <<wvars, fvars, xvars>>
    /\ UNCHANGED <<envvars, argvars, handle, output, wrapvars, layoutvars>>

\* lines 114-115: ImageFont.truetype raises OSError on a file that is no font
OvLoadFonts ==
    /\ fn = "overlay" /\ pc = "load_fonts"
    /\ IF fonts["Inter-Bold.ttf"] = "corrupt" \/ fonts["Inter-Regular.ttf"] = "corrupt"
       THEN Raise("OSError")
       ELSE Goto("wrap_title")
    /\ UNCHANGED <<wvars, fvars, xvars>>
    /\ UNCHANGED <<envvars, argvars, handle, output, wrapvars, layoutvars>>

ov_margin == (img_width * 8) \div 100
max_text_width_pixels == img_width - (2 * ov_margin)

\* lines 117-127
OvWrapTitle ==
    /\ fn = "overlay" /\ pc = "wrap_title"
    /\ LET avg_char_width_title == TextLength(face, title_size, <<"a">>)
           at == WrapWidth(max_text_width_pixels, avg_char_width_title, 30)
       IN  /\ wrap_title_at' = at
           /\ divisions' = divisions + WrapDivisions(avg_char_width_title)
           /\ IF WrapRaises(slide_title, at) # ""
              THEN Raise(WrapRaises(slide_title, at)) /\ UNCHANGED wrapped_title
              ELSE Goto("wrap_exp") /\ wrapped_title' = Wrap(slide_title, at)
    /\ UNCHANGED <<wvars, fvars, xvars>>
    /\ UNCHANGED <<envvars, argvars, handle, output, wrap_at_char_count, wrap_exp_at,
                   wrapped_text, wrapped_explanation, layoutvars>>

\* lines 129-135
OvWrapExplanation ==
    /\ fn = "overlay" /\ pc = "wrap_exp"
    /\ LET avg_char_width_exp == TextLength(face, explanation_size, <<"a">>)
           at == WrapWidth(max_text_width_pixels, avg_char_width_exp, 50)
       IN  /\ wrap_exp_at' = at
           /\ divisions' = divisions + WrapDivisions(avg_char_width_exp)
           /\ IF WrapRaises(slide_text, at) # ""
              THEN Raise(WrapRaises(slide_text, at)) /\ UNCHANGED wrapped_explanation
              ELSE Goto("measure") /\ wrapped_explanation' = Wrap(slide_text, at)
    /\ UNCHANGED <<wvars, fvars, xvars>>
    /\ UNCHANGED <<envvars, argvars, handle, output, wrap_at_char_count, wrap_title_at,
                   wrapped_text, wrapped_title, layoutvars>>

\* bbox[3] - bbox[1] of draw.textbbox((0, 0), line, font)
LineHeight(size, line) == TextBBox(face, size, line)[4] - TextBBox(face, size, line)[2]

\* the loops of lines 142-144 and 146-148: the sum of height + spacing
RECURSIVE StackHeight(_, _, _)
StackHeight(size, lines, spacing) ==
    IF lines = <<>> THEN 0
    ELSE LineHeight(size, Head(lines)) + spacing + StackHeight(size, Tail(lines), spacing)

\* lines 141-148
TotalHeight(title_lines, exp_lines) ==
    (0 - title_spacing)
    + StackHeight(title_size, title_lines, title_spacing)
    + space_between_blocks
    + StackHeight(explanation_size, exp_lines, exp_spacing)

\* lines 150-160, in 1/64 px
MaxLineWidth(title_lines, exp_lines) ==
    IF title_lines # <<>> \/ exp_lines # <<>>
    THEN Max({TextLength(face, title_size, title_lines[i]) : i \in 1..Len(title_lines)}
             \cup {TextLength(face, explanation_size, exp_lines[i]) : i \in 1..Len(exp_lines)})
    ELSE 0

\* lines 137-160
OvMeasure ==
    /\ fn = "overlay" /\ pc = "measure"
    /\ total_height' = TotalHeight(wrapped_title, wrapped_explanation)
    /\ max_line_width' = MaxLineWidth(wrapped_title, wrapped_explanation)
    /\ Goto("rectangle")
    /\ UNCHANGED <<wvars, fvars, xvars>>
    /\ UNCHANGED <<envvars, argvars, handle, output, wrapvars, bg_bbox, current_y,
                   text_y, drawn>>

\* lines 162-171: the backing rectangle (left, top, right, bottom); left, top
\* and bottom in px, right in 1/64 px
OvRectangle ==
    /\ fn = "overlay" /\ pc = "rectangle"
    /\ bg_bbox' = <<ov_margin - padding, ov_margin - padding,
                    (ov_margin + padding) * 64 + max_line_width,
                    ov_margin + total_height + padding>>
    /\ current_y' = ov_margin
    /\ Goto("draw_title")
    /\ UNCHANGED <<wvars, fvars, xvars>>
    /\ UNCHANGED <<envvars, argvars, handle, output, wrapvars, total_height,
                   max_line_width, text_y, drawn>>

\* what draw.text((x, y), line, font) puts on the layer: the line, where it
\* was drawn, and the box of its ink there
Drawn(block, size, line, x, y) ==
    [block |-> block, line |-> line, x |-> x, y |-> y,
     left |-> x + TextBBox(face, size, line)[1],
     top |-> y + TextBBox(face, size, line)[2],
     right |-> x + TextBBox(face, size, line)[3],
     bottom |-> y + TextBBox(face, size, line)[4]]

NumDrawn(block) == Cardinality({i \in 1..Len(drawn) : drawn[i].block = block})

\* lines 172-181: one turn of the title loop
OvDrawTitleLine ==
    /\ fn = "overlay" /\ pc = "draw_title"
    /\ NumDrawn("title") < Len(wrapped_title)
    /\ LET line == wrapped_title[NumDrawn("title") + 1]
       IN  /\ drawn' = Append(drawn, Drawn("title", title_size, line, ov_margin, current_y))
           /\ current_y' = current_y + LineHeight(title_size, line) + title_spacing
    /\ Goto("draw_title")
    /\ UNCHANGED <<wvars, fvars, xvars>>
    /\ UNCHANGED <<envvars, argvars, handle, output, wrapvars, total_height,
                   max_line_width, bg_bbox, text_y>>

\* line 183
OvGap ==
    /\ fn = "overlay" /\ pc = "draw_title"
    /\ NumDrawn("title") = Len(wrapped_title)
    /\ current_y' = current_y + space_between_blocks
    /\ Goto("draw_exp")
    /\ UNCHANGED <<wvars, fvars, xvars>>
    /\ UNCHANGED <<envvars, argvars, handle, output, wrapvars, total_height,
                   max_line_width, bg_bbox, text_y, drawn>>

\* lines 185-194: one turn of the body loop
OvDrawExplanationLine ==
    /\ fn = "overlay" /\ pc = "draw_exp"
    /\ NumDrawn("body") < Len(wrapped_explanation)
    /\ LET line == wrapped_explanation[NumDrawn("body") + 1]
       IN  /\ drawn' = Append(drawn, Drawn("body", explanation_size, line, ov_margin, current_y))
           /\ current_y' = current_y + LineHeight(explanation_size, line) + exp_spacing
    /\ Goto("draw_exp")
    /\ UNCHANGED <<wvars, fvars, xvars>>
    /\ UNCHANGED <<envvars, argvars, handle, output, wrapvars, total_height,
                   max_line_width, bg_bbox, text_y>>

\* lines 196-199: composite and save; a failed write raises OSError
OvSave ==
    /\ fn = "overlay" /\ pc = "draw_exp"
    /\ NumDrawn("body") = Len(wrapped_explanation)
    /\ IF disk = "full"
       THEN Raise("OSError") /\ UNCHANGED output
       ELSE Return("True")
            /\ output' = <<[fn |-> fn, width |-> img_width, bg_bbox |-> bg_bbox,
                            drawn |-> drawn]>>
    /\ UNCHANGED <<wvars, fvars, xvars>>
    /\ UNCHANGED <<envvars, argvars, handle, wrapvars, layoutvars>>

\* the collector closes a file nothing refers to any more, whenever it runs
Collect ==
    /\ handle = "garbage"
    /\ handle' = "closed"
    /\ UNCHANGED <<wvars, fvars, xvars>>
    /\ UNCHANGED <<envvars, argvars, pc, result, raised, output, wrapvars, layoutvars>>

(* ---- create_branded_headline_slide ------------------------------------- *)

\* line 51
hl_margin == (headline_width * 1) \div 10

\* lines 37-42
HlFindFonts ==
    /\ fn = "headline" /\ pc = "find_fonts"
    /\ IF FindFontFile(fonts, <<"PlayfairDisplay-ExtraBold.ttf">>) = ""
          \/ FindFontFile(fonts, <<"Inter-Bold.ttf">>) = ""
       THEN Return("False")
       ELSE Goto("load_fonts")
    /\ UNCHANGED <<wvars, fvars, xvars>>
    /\ UNCHANGED <<envvars, argvars, handle, output, wrapvars, layoutvars>>

\* lines 44-46
HlLoadFonts ==
    /\ fn = "headline" /\ pc = "load_fonts"
    /\ IF fonts["PlayfairDisplay-ExtraBold.ttf"] = "corrupt"
          \/ fonts["Inter-Bold.ttf"] = "corrupt"
       THEN Raise("OSError")
       ELSE Goto("badge")
    /\ UNCHANGED <<wvars, fvars, xvars>>
    /\ UNCHANGED <<envvars, argvars, handle, output, wrapvars, layoutvars>>

\* a fixed label drawn by its anchor point (x, y)
Label(block, x, y) ==
    [block |-> block, line |-> <<>>, x |-> x, y |-> y,
     left |-> x, top |-> y, right |-> x, bottom |-> y]

\* lines 48-59: the canvas, the badge and its label
HlBadge ==
    /\ fn = "headline" /\ pc = "badge"
    /\ drawn' = Append(NewCanvas, Label("tag", hl_margin + 90, hl_margin + 20))
    /\ Goto("wrap")
    /\ UNCHANGED <<wvars, fvars, xvars>>
    /\ UNCHANGED <<envvars, argvars, handle, output, wrapvars, total_height,
                   max_line_width, bg_bbox, current_y, text_y>>

\* lines 61-65
HlWrap ==
    /\ fn = "headline" /\ pc = "wrap"
    /\ LET avg_char_width == TextLength(face, headline_size, <<"A">>)
           at == WrapWidth(headline_width - 2 * hl_margin, avg_char_width, 20)
       IN  /\ wrap_at_char_count' = at
           /\ divisions' = divisions + WrapDivisions(avg_char_width)
           /\ IF WrapRaises(headline_text, at) # ""
              THEN Raise(WrapRaises(headline_text, at)) /\ UNCHANGED wrapped_text
              ELSE Goto("draw_text") /\ wrapped_text' = Wrap(headline_text, at)
    /\ UNCHANGED <<wvars, fvars, xvars>>
    /\ UNCHANGED <<envvars, argvars, handle, output, wrap_title_at, wrap_exp_at,
                   wrapped_title, wrapped_explanation, layoutvars>>

\* ImageDraw's spacing between the lines of a multi-line text: the bottom of
\* "A" plus the default spacing of 4
LineSpacing(size) == TextBBox(face, size, <<"A">>)[4] + 4

\* draw.multiline_textbbox((x, 0), text, font): top and bottom of the union
\* of the boxes of the lines, each one line spacing below the last
MultilineTop(size, lines) ==
    IF lines = <<>> THEN 0
    ELSE Min({(i - 1) * LineSpacing(size) + TextBBox(face, size, lines[i])[2] :
              i \in 1..Len(lines)})

MultilineBottom(size, lines) ==
    IF lines = <<>> THEN 0
    ELSE Max({(i - 1) * LineSpacing(size) + TextBBox(face, size, lines[i])[4] :
              i \in 1..Len(lines)})

\* the lines of draw.text((x, y), text) for a multi-line text
RECURSIVE DrawnLines(_, _, _, _, _)
DrawnLines(block, size, lines, x, y) ==
    IF lines = <<>> THEN <<>>
    ELSE <<Drawn(block, size, Head(lines), x, y)>>
         \o DrawnLines(block, size, Tail(lines), x, y + LineSpacing(size))

\* lines 67-74; text_y is kept doubled: (height - text_height) / 2 may end
\* in .5, and the text is placed on the pixel row int(text_y)
HlDrawText ==
    /\ fn = "headline" /\ pc = "draw_text"
    /\ LET text_height == MultilineBottom(headline_size, wrapped_text)
                          - MultilineTop(headline_size, wrapped_text)
       IN  /\ total_height' = text_height
           /\ text_y' = headline_height - text_height
           /\ drawn' = drawn \o DrawnLines("headline", headline_size, wrapped_text,
                                           hl_margin, (headline_height - text_height) \div 2)
    /\ Goto("footer")
    /\ UNCHANGED <<wvars, fvars, xvars>>
    /\ UNCHANGED <<envvars, argvars, handle, output, wrapvars, max_line_width,
                   bg_bbox, current_y>>

\* lines 76-82
HlFooter ==
    /\ fn = "headline" /\ pc = "footer"
    /\ drawn' = Append(drawn, Label("footer", headline_width - hl_margin,
                                    headline_height - hl_margin))
    /\ Goto("save")
    /\ UNCHANGED <<wvars, fvars, xvars>>
    /\ UNCHANGED <<envvars, argvars, handle, output, wrapvars, total_height,
                   max_line_width, bg_bbox, current_y, text_y>>

\* lines 84-86
HlSave ==
    /\ fn = "headline" /\ pc = "save"
    /\ IF disk = "full"
       THEN Raise("OSError") /\ UNCHANGED output
       ELSE Return("True")
            /\ output' = <<[fn |-> fn, width |-> headline_width, bg_bbox |-> bg_bbox,
                            drawn |-> drawn]>>
    /\ UNCHANGED <<wvars, fvars, xvars>>
    /\ UNCHANGED <<envvars, argvars, handle, wrapvars, layoutvars>>

RECURSIVE Texts(_)
Texts(n) ==
    IF n = 0 THEN {<<>>}
    ELSE Texts(n - 1) \cup {Append(t, c) : t \in Texts(n - 1), c \in Alphabet}

(***************************************************************************)
(* The states in which a machine is not in use.                            *)
(***************************************************************************)
CompositorIdle ==
    /\ fonts = [f \in FontFiles |-> "ok"] /\ face = "inter" /\ bg = "png"
    /\ img_width = 1024 /\ disk = "ok"
    /\ fn = "none" /\ headline_text = <<>> /\ slide_title = <<>> /\ slide_text = <<>>
    /\ pc = "idle" /\ result = "none" /\ raised = "none"
    /\ handle = "none" /\ output = <<>>
    /\ wrap_at_char_count = Unbound /\ wrap_title_at = Unbound /\ wrap_exp_at = Unbound
    /\ divisions = 0
    /\ wrapped_text = <<>> /\ wrapped_title = <<>> /\ wrapped_explanation = <<>>
    /\ total_height = Unbound /\ max_line_width = 0 /\ bg_bbox = <<0, 0, 0, 0>>
    /\ current_y = 0 /\ text_y = 0 /\ drawn = <<>>

WrapIdle == wtext = <<>> /\ wwidth = 1 /\ wlines = <<>> /\ wdone = FALSE

NoStrategy == [headline_slide_text |-> FALSE, symbolic_slides |-> <<>>]
NoArgs == [image_prompt |-> "", slide_title |-> "", slide_text |-> ""]

WorkflowIdle ==
    /\ articles = 0 /\ model = FALSE /\ wf_pc = "idle" /\ post_num = 0
    /\ slide_num = 0 /\ strategy = NoStrategy /\ slide_args = NoArgs
    /\ folder = {} /\ wf_result = "none" /\ wf_raised = "none"
    /\ posts = <<>> /\ attempted = {} /\ failed = {} /\ captions = {} /\ removed = {}

NoCall == [args |-> <<"none">>, result |-> "none", output |-> <<>>, other |-> FALSE]

RepeatIdle == calls = 0 /\ kept = NoCall

Runs == 1..MaxRuns

RunsIdle ==
    /\ now = 0
    /\ run_pc = [r \in Runs |-> "off"]
    /\ run_folder = [r \in Runs |-> Unbound]
    /\ dirs = {} /\ clashes = {}

StrategistIdle ==
    /\ st_pc = "off" /\ st_model = FALSE /\ st_article = 0 /\ attempts = 0
    /\ st_exc = "none" /\ st_ret = "none" /\ st_log = <<>>

ThreadIdle == th_pc = "off" /\ th_left = 0 /\ th_exc = "none" /\ th_sent = <<>>

ExtraIdle == RepeatIdle /\ RunsIdle /\ StrategistIdle /\ ThreadIdle

(***************************************************************************)
(* WrapSpec: the wrapping step on its own, over every text of the alphabet *)
(* up to MaxWrapLen characters and every width up to MaxWrapWidth.         *)
(***************************************************************************)
WrapInit ==
    /\ wtext \in Texts(MaxWrapLen)
    /\ wwidth \in 1..MaxWrapWidth
    /\ wlines = <<>> /\ wdone = FALSE
    /\ CompositorIdle /\ WorkflowIdle /\ ExtraIdle

DoWrap ==
    /\ ~wdone
    /\ wlines' = Wrap(wtext, wwidth)
    /\ wdone' = TRUE
    /\ UNCHANGED <<wtext, wwidth, cvars, fvars, xvars>>

WrapNext == DoWrap

WrapSpec == WrapInit /\ [][WrapNext]_vars

(***************************************************************************)
(* RenderSpec: one call of either render function in every environment:    *)
(* fonts absent, unreadable or present, every kind of background file,     *)
(* every face, a writable or a full disk.                                  *)
(***************************************************************************)
BgKinds == {"missing", "garbage", "truncated", "png", "gif"}
ImgWidths == {40, 60, 1024}
RenderTexts == {NoneText, <<>>, <<"a">>, <<"a", " ", "h">>}

CallInit ==
    /\ result = "none" /\ raised = "none" /\ handle = "none" /\ output = <<>>
    /\ wrap_at_char_count = Unbound /\ wrap_title_at = Unbound /\ wrap_exp_at = Unbound
    /\ divisions = 0
    /\ wrapped_text = <<>> /\ wrapped_title = <<>> /\ wrapped_explanation = <<>>
    /\ total_height = Unbound /\ max_line_width = 0 /\ bg_bbox = <<0, 0, 0, 0>>
    /\ current_y = 0 /\ text_y = 0 /\ drawn = <<>>

HeadlineCall(texts) ==
    /\ fn = "headline" /\ pc = "find_fonts"
    /\ headline_text \in texts
    /\ slide_title = <<>> /\ slide_text = <<>>
    /\ bg = "png" /\ img_width = headline_width

OverlayCall(texts, kinds, widths) ==
    /\ fn = "overlay" /\ pc = "open"
    /\ headline_text = <<>>
    /\ slide_title \in texts /\ slide_text \in texts
    /\ bg \in kinds /\ img_width \in widths

RenderInit ==
    /\ fonts \in [FontFiles -> {"absent", "corrupt", "ok"}]
    /\ face \in Faces
    /\ disk \in {"ok", "full"}
    /\ HeadlineCall(RenderTexts) \/ OverlayCall(RenderTexts, BgKinds, ImgWidths)
    /\ CallInit
    /\ WrapIdle /\ WorkflowIdle /\ ExtraIdle

RenderNext ==
    \/ OvOpen \/ OvFindFonts \/ OvLoadFonts \/ OvWrapTitle \/ OvWrapExplanation
    \/ OvMeasure \/ OvRectangle \/ OvDrawTitleLine \/ OvGap \/ OvDrawExplanationLine
    \/ OvSave \/ Collect
    \/ HlFindFonts \/ HlLoadFonts \/ HlBadge \/ HlWrap \/ HlDrawText \/ HlFooter
    \/ HlSave

RenderSpec == RenderInit /\ [][RenderNext]_vars

(***************************************************************************)
(* run_workflow (src/main.py) with create_image                            *)
(* (src/src/image_generator/imagen_api.py).  A strategy record says which  *)
(* of its keys are present; a present key holds a text.  The two render    *)
(* functions return True or False.                                         *)
(***************************************************************************)
SlideRecords == [slide_title : BOOLEAN, slide_text : BOOLEAN, image_prompt : BOOLEAN]

RECURSIVE SlideLists(_)
SlideLists(n) ==
    IF n = 0 THEN {<<>>}
    ELSE SlideLists(n - 1)
         \cup {Append(l, r) : l \in {k \in SlideLists(n - 1) : Len(k) = n - 1},
                              r \in SlideRecords}

Strategies == [headline_slide_text : BOOLEAN, symbolic_slides : SlideLists(MaxSlides)]

\* dict.get(key): the text when the key is present, else None
Get(present) == IF present THEN "text" ELSE "None"

\* dict.get(key, ""): the text when the key is present, else ""
GetOrEmpty(present) == IF present THEN "text" ELSE ""

\* line 95: image_prompt = slide_content.get("image_prompt")
GetPrompt(present) == Get(present)

\* create_image(prompt, filename) (imagen_api.py lines 36-71), given whether
\* the Imagen call and the save succeed: "False" without a model; then
\* prompt[:50] is evaluated outside the try block; a failure inside the try
\* block is "False"
CreateImage(prompt, generated) ==
    IF ~model THEN "False"
    ELSE IF prompt = "None" THEN "TypeError"
    ELSE IF generated THEN "True"
    ELSE "False"

\* main.py lines 53-58
WfFetch ==
    /\ wf_pc = "fetch"
    /\ \E n \in 0..MaxArticles :
         /\ articles' = n
         /\ IF n = 0
            THEN wf_pc' = "done" /\ wf_result' = "None"
            ELSE wf_pc' = "article" /\ UNCHANGED wf_result
    /\ UNCHANGED <<model, post_num, slide_num, strategy, slide_args, folder, wf_raised,
                   posts, attempted, failed, captions, removed>>
    /\ UNCHANGED <<cvars, wvars, xvars>>

\* lines 60-75: the next article; it is no dict, or its strategy is None, or
\* it has a strategy
WfArticle ==
    /\ wf_pc = "article" /\ post_num < articles
    /\ post_num' = post_num + 1
    /\ \/ /\ posts' = Append(posts, Unbound)
          /\ UNCHANGED <<wf_pc, strategy>>
       \/ \E s \in Strategies :
             /\ strategy' = s
             /\ posts' = Append(posts, Len(s.symbolic_slides))
             /\ wf_pc' = "headline"
    /\ UNCHANGED <<articles, model, slide_num, slide_args, folder, wf_result, wf_raised,
                   attempted, failed, captions, removed>>
    /\ UNCHANGED <<cvars, wvars, xvars>>

\* lines 81-88: the headline slide, when the strategy has a headline; the
\* render writes slide 01 when it returns True
WfHeadline ==
    /\ wf_pc = "headline"
    /\ IF strategy.headline_slide_text
       THEN \E rendered \in BOOLEAN :
               folder' = IF rendered THEN folder \cup {<<"slide", post_num, 1>>} ELSE folder
       ELSE UNCHANGED folder
    /\ slide_num' = 0
    /\ wf_pc' = "slide"
    /\ UNCHANGED <<articles, model, post_num, strategy, slide_args, wf_result, wf_raised,
                   posts, attempted, failed, captions, removed>>
    /\ UNCHANGED <<cvars, wvars, xvars>>

\* lines 89-100 and 114-117: the next slide and its background
WfCreateImage ==
    /\ wf_pc = "slide" /\ slide_num < Len(strategy.symbolic_slides)
    /\ slide_num' = slide_num + 1
    /\ attempted' = attempted \cup {<<post_num, slide_num + 1>>}
    /\ LET slide_content == strategy.symbolic_slides[slide_num + 1]
           image_prompt == GetPrompt(slide_content.image_prompt)
       IN  /\ slide_args' = [image_prompt |-> image_prompt,
                             slide_title |-> slide_args.slide_title,
                             slide_text |-> slide_args.slide_text]
           /\ \E generated \in BOOLEAN :
                LET r == CreateImage(image_prompt, generated)
                IN  CASE r = "True" ->
                           /\ folder' = folder \cup {<<"temp_bg", post_num, slide_num + 2>>}
                           /\ wf_pc' = "composite"
                           /\ UNCHANGED <<failed, wf_raised>>
                      [] r = "False" ->
                           /\ failed' = failed \cup {<<post_num, slide_num + 1>>}
                           /\ UNCHANGED <<folder, wf_pc, wf_raised>>
                      [] OTHER ->
                           /\ failed' = failed \cup {<<post_num, slide_num + 1>>}
                           /\ wf_raised' = r
                           /\ wf_pc' = "done"
                           /\ UNCHANGED folder
    /\ UNCHANGED <<articles, model, post_num, strategy, wf_result, posts, captions, removed>>
    /\ UNCHANGED <<cvars, wvars, xvars>>

\* the background is removed only when the slide was rendered
AfterCompositeKeepOnFailure(files, slide, temp, rendered) ==
    IF rendered THEN (files \cup {slide}) \ {temp} ELSE files

\* lines 107-113: add_text_to_image writes the slide when it returns True,
\* and os.remove(bg_image_path) follows whatever it returned
AfterComposite(files, slide, temp, rendered) ==
    (IF rendered THEN files \cup {slide} ELSE files) \ {temp}

\* lines 101-113: the render of the slide, and the removal of its background
WfComposite ==
    /\ wf_pc = "composite"
    /\ LET slide_content == strategy.symbolic_slides[slide_num]
       IN  slide_args' = [image_prompt |-> slide_args.image_prompt,
                          slide_title |-> GetOrEmpty(slide_content.slide_title),
                          slide_text |-> GetOrEmpty(slide_content.slide_text)]
    /\ \E rendered \in BOOLEAN :
         /\ folder' = AfterComposite(folder, <<"slide", post_num, slide_num + 1>>,
                                     <<"temp_bg", post_num, slide_num + 1>>, rendered)
         /\ failed' = IF rendered THEN failed ELSE failed \cup {<<post_num, slide_num>>}
    /\ removed' = removed \cup {<<"temp_bg", post_num, slide_num + 1>>}
    /\ wf_pc' = "slide"
    /\ UNCHANGED <<articles, model, post_num, slide_num, strategy, wf_result, wf_raised,
                   posts, attempted, captions>>
    /\ UNCHANGED <<cvars, wvars, xvars>>

\* lines 119-121
WfSaveCaption ==
    /\ wf_pc = "slide" /\ slide_num = Len(strategy.symbolic_slides)
    /\ captions' = captions \cup {post_num}
    /\ folder' = folder \cup {<<"caption", post_num, 0>>}
    /\ wf_pc' = "article"
    /\ UNCHANGED <<articles, model, post_num, slide_num, strategy, slide_args, wf_result,
                   wf_raised, posts, attempted, failed, removed>>
    /\ UNCHANGED <<cvars, wvars, xvars>>

\* lines 123-126
WfReturn ==
    /\ wf_pc = "article" /\ post_num = articles
    /\ wf_result' = "output_folder"
    /\ wf_pc' = "done"
    /\ UNCHANGED <<articles, model, post_num, slide_num, strategy, slide_args, folder,
                   wf_raised, posts, attempted, failed, captions, removed>>
    /\ UNCHANGED <<cvars, wvars, xvars>>

WorkflowInit ==
    /\ model \in BOOLEAN
    /\ wf_pc = "fetch"
    /\ articles = 0 /\ post_num = 0 /\ slide_num = 0
    /\ strategy = NoStrategy /\ slide_args = NoArgs
    /\ folder = {} /\ wf_result = "none" /\ wf_raised = "none"
    /\ posts = <<>> /\ attempted = {} /\ failed = {} /\ captions = {} /\ removed = {}
    /\ CompositorIdle /\ WrapIdle /\ ExtraIdle

WorkflowNext ==
    \/ WfFetch \/ WfArticle \/ WfHeadline \/ WfCreateImage \/ WfComposite
    \/ WfSaveCaption \/ WfReturn

WorkflowSpec == WorkflowInit /\ [][WorkflowNext]_vars

\* every article that had a strategy got all its slides reached and its
\* caption saved
AllProcessed ==
    /\ Len(posts) = articles
    /\ \A p \in 1..Len(posts) :
         posts[p] # Unbound =>
            /\ p \in captions
            /\ \A k \in 1..posts[p] : <<p, k>> \in attempted

\* C8 as stated: a slide that fails is skipped and aborts nothing: when the
\* workflow has ended, every slide of every post was reached, every article
\* was processed and every post has its caption.
C8_FailedSlideAbortsNothing ==
    (wf_pc = "done" /\ failed # {}) => (wf_raised = "none" /\ AllProcessed)

\* C9 as stated: a missing headline_slide_text, slide_title, slide_text or
\* image_prompt is taken as the empty string, and nothing fails on a null
\* value.
C9_MissingFieldsAreEmptyStrings ==
    /\ wf_raised = "none"
    /\ slide_args.image_prompt # "None"
    /\ slide_args.slide_title # "None"
    /\ slide_args.slide_text # "None"

\* the whitespace-separated words of a text, in order
RECURSIVE WordsFrom(_, _, _)
WordsFrom(t, p, cur) ==
    IF p > Len(t) THEN (IF cur = <<>> THEN <<>> ELSE <<cur>>)
    ELSE IF IsWs(t[p])
         THEN (IF cur = <<>> THEN <<>> ELSE <<cur>>) \o WordsFrom(t, p + 1, <<>>)
         ELSE WordsFrom(t, p + 1, Append(cur, t[p]))

Words(t) == WordsFrom(t, 1, <<>>)

\* the words of the produced lines, line after line
RECURSIVE LineWords(_)
LineWords(lines) ==
    IF lines = <<>> THEN <<>> ELSE Words(Head(lines)) \o LineWords(Tail(lines))

Wrapped == wdone

HasHyphen(w) == \E i \in 1..Len(w) : w[i] = Hyphen

HeadlineRef == TextLength(face, headline_size, <<"A">>)
TitleRef == TextLength(face, title_size, <<"a">>)
ExplanationRef == TextLength(face, explanation_size, <<"a">>)

\* C4 as stated: whatever the reference glyph measures and however wide the
\* background is, every wrap width handed to the wrapping step is at least 1.
C4_WrapWidthAtLeastOne ==
    \A w \in {wrap_at_char_count, wrap_title_at, wrap_exp_at} :
        w # Unbound => w >= 1

\* C5: when the reference glyph measures zero or less the wrap width is the
\* fallback (20 for the headline, 30 for the title, 50 for the body) and no
\* division was performed to get it.
C5_FallbackWithoutDivision ==
    /\ (wrap_at_char_count # Unbound /\ HeadlineRef <= 0) => wrap_at_char_count = 20
    /\ (wrap_title_at # Unbound /\ TitleRef <= 0) => wrap_title_at = 30
    /\ (wrap_exp_at # Unbound /\ ExplanationRef <= 0) => wrap_exp_at = 50
    /\ divisions =
         (IF wrap_at_char_count # Unbound /\ HeadlineRef > 0 THEN 1 ELSE 0)
         + (IF wrap_title_at # Unbound /\ TitleRef > 0 THEN 1 ELSE 0)
         + (IF wrap_exp_at # Unbound /\ ExplanationRef > 0 THEN 1 ELSE 0)

\* C5 witness: a negative reference width, both fallbacks of the overlay taken
C5_Witness ==
    /\ fn = "overlay" /\ TitleRef < 0 /\ ExplanationRef < 0
    /\ wrap_title_at = 30 /\ wrap_exp_at = 50 /\ divisions = 0

RequiredFonts ==
    IF fn = "headline" THEN {"PlayfairDisplay-ExtraBold.ttf", "Inter-Bold.ttf"}
    ELSE {"Inter-Bold.ttf", "Inter-Regular.ttf"}

FontMissing == \E f \in RequiredFonts : fonts[f] = "absent"

\* C6: no exception leaves a render call; the call ends with True or False,
\* with False when a font is missing, when the background file is missing or
\* cannot be decoded, and when the output cannot be written, and with True
\* only after the output file was written.
C6_NeverRaisesReturnsBool ==
    /\ raised = "none"
    /\ pc = "done" =>
         /\ result \in {"True", "False"}
         /\ FontMissing => result = "False"
         /\ (fn = "overlay" /\ bg \in {"missing", "garbage", "truncated"}) => result = "False"
         /\ disk = "full" => result = "False"
         /\ result = "True" => output # <<>>

\* C6 witness: everything was drawn and the write of the output file failed
C6_Witness ==
    /\ pc = "done" /\ disk = "full" /\ result = "False"
    /\ \E i \in 1..Len(drawn) : drawn[i].block \in {"body", "headline"}

\* C7: with a required font absent the call returns False, the file at
\* output_path is never written, and no text is wrapped or drawn with a
\* substitute font.
C7_MissingFontFailsNothingWritten ==
    FontMissing =>
        /\ pc = "done" => result = "False"
        /\ output = <<>>
        /\ drawn = <<>>
        /\ wrap_at_char_count = Unbound /\ wrap_title_at = Unbound

\* C7 witness: add_text_to_image opened its background, found the regular
\* font absent and returned False
C7_Witness ==
    /\ fn = "overlay" /\ bg = "png" /\ fonts["Inter-Bold.ttf"] = "ok"
    /\ fonts["Inter-Regular.ttf"] = "absent"
    /\ pc = "done" /\ result = "False"

\* C10 as stated: once add_text_to_image has returned, no handle on the
\* background file is still open, on any exit path.
C10_HandleReleasedOnReturn ==
    (fn = "overlay" /\ pc = "done") => handle \in {"none", "closed"}

(***************************************************************************)
(* LayoutSpec: both render functions with fonts, background and disk in    *)
(* order, over every title, body and headline of up to MaxTextLen          *)
(* characters.                                                             *)
(***************************************************************************)
LayoutAlphabet == {"a", "h", " "}

RECURSIVE LayoutTexts(_)
LayoutTexts(n) ==
    IF n = 0 THEN {<<>>}
    ELSE LayoutTexts(n - 1)
         \cup {Append(t, c) : t \in LayoutTexts(n - 1), c \in LayoutAlphabet}

\* a word of capitals of as many characters as a title line takes on a
\* canvas as wide as the headline slide
FullCapsLine ==
    [i \in 1..WrapWidth(headline_width - 2 * ((headline_width * 8) \div 100),
                        TextLength("inter", title_size, <<"a">>), 30) |-> "A"]

LayoutInit ==
    /\ fonts = [f \in FontFiles |-> "ok"]
    /\ face = "inter"
    /\ disk = "ok"
    /\ \/ HeadlineCall(LayoutTexts(MaxTextLen))
       \/ OverlayCall(LayoutTexts(MaxTextLen) \cup {FullCapsLine}, {"png"}, ImgWidths)
    /\ CallInit
    /\ WrapIdle /\ WorkflowIdle /\ ExtraIdle

LayoutNext ==
    \/ OvOpen \/ OvFindFonts \/ OvLoadFonts \/ OvWrapTitle \/ OvWrapExplanation
    \/ OvMeasure \/ OvRectangle \/ OvDrawTitleLine \/ OvGap \/ OvDrawExplanationLine
    \/ OvSave
    \/ HlFindFonts \/ HlLoadFonts \/ HlBadge \/ HlWrap \/ HlDrawText \/ HlFooter
    \/ HlSave

LayoutSpec == LayoutInit /\ [][LayoutNext]_vars

RectangleDrawn == fn = "overlay" /\ pc \in {"draw_title", "draw_exp", "done"}
                  /\ total_height # Unbound /\ bg_bbox # <<0, 0, 0, 0>>

\* the height of a block: its line heights and the spacing between its lines
BlockHeight(size, lines, spacing) ==
    IF lines = <<>> THEN 0 ELSE StackHeight(size, lines, spacing) - spacing

\* C1 as stated: the backing rectangle contains the box of every title and
\* body line where it is drawn, extended by the padding of 30 px on all four
\* sides.
C1_RectangleContainsPaddedLines ==
    RectangleDrawn =>
        \A i \in 1..Len(drawn) :
            /\ bg_bbox[1] <= drawn[i].left - padding
            /\ bg_bbox[2] <= drawn[i].top - padding
            /\ bg_bbox[3] >= (drawn[i].right + padding) * 64
            /\ bg_bbox[4] >= drawn[i].bottom + padding

\* C2 as stated: an empty block adds no height and reserves no gap: with a
\* title and no body the stack is as high as the title block and the
\* rectangle as high as that plus the padding; with a body and no title the
\* stack is as high as the body block and the body starts at the margin.
C2_EmptyBlockReservesNothing ==
    RectangleDrawn =>
        /\ (wrapped_title # <<>> /\ wrapped_explanation = <<>>) =>
              /\ total_height = BlockHeight(title_size, wrapped_title, title_spacing)
              /\ bg_bbox[4] - bg_bbox[2] =
                    BlockHeight(title_size, wrapped_title, title_spacing) + 2 * padding
        /\ (wrapped_title = <<>> /\ wrapped_explanation # <<>>) =>
              /\ total_height =
                    BlockHeight(explanation_size, wrapped_explanation, exp_spacing)
              /\ drawn # <<>> => drawn[1].y = ov_margin

\* the width of the canvas of the call: 1024 for the headline slide, the
\* width of the background for the overlay (line 117 reads the width only)
CanvasWidth == IF fn = "headline" THEN headline_width ELSE img_width

\* C13 as stated: whatever the texts, everything drawn lies on the canvas:
\* the backing rectangle and the box of every drawn headline, title and body
\* line start at or after the left and top edge and end at or before the
\* right edge, and on the headline slide at or before the bottom edge.
C13_DrawnFitsCanvas ==
    /\ RectangleDrawn =>
          /\ bg_bbox[1] >= 0 /\ bg_bbox[2] >= 0
          /\ bg_bbox[3] <= CanvasWidth * 64
    /\ \A i \in 1..Len(drawn) :
          /\ drawn[i].left >= 0 /\ drawn[i].top >= 0
          /\ drawn[i].right <= CanvasWidth
          /\ fn = "headline" => drawn[i].bottom <= headline_height

\* the drawn lines of a block, in the order they were drawn
BlockDrawn(block) == SelectSeq(drawn, LAMBDA d : d.block = block)

\* the distance, as drawn, from the bottom of the last title line (where it
\* was drawn plus its height) to the top of the first body line
DrawnGap ==
    LET titles == BlockDrawn("title")
        last == titles[Len(titles)]
        first == BlockDrawn("body")[1]
    IN  first.y - (last.y + LineHeight(title_size, last.line))

\* C14 as stated: with a title and a body, the first body line is drawn
\* exactly 60 px below the bottom of the last title line, and the total
\* stack height is the height of the title block, that same distance, and
\* the height of the body block.
C14_GapIsSixtyOnce ==
    (fn = "overlay" /\ BlockDrawn("title") # <<>> /\ BlockDrawn("body") # <<>>) =>
        /\ DrawnGap = space_between_blocks
        /\ total_height = BlockHeight(title_size, wrapped_title, title_spacing)
                          + DrawnGap
                          + BlockHeight(explanation_size, wrapped_explanation, exp_spacing)

(***************************************************************************)
(* The files of the output folder of one run                               *)
(***************************************************************************)
TempFiles(files) == {f \in files : f[1] = "temp_bg"}

\* C11: once run_workflow has returned, its output folder holds no temp_bg
\* file, only slides and captions; a temp_bg file exists only between
\* create_image and the end of the compositing step of its slide, and every
\* background that was removed is gone whether the render returned True or
\* False.
C11_NoTempAfterReturn ==
    /\ wf_result = "output_folder" =>
          \A f \in folder : f[1] \in {"slide", "caption"}
    /\ TempFiles(folder) # {} =>
          /\ wf_pc = "composite"
          /\ TempFiles(folder) = {<<"temp_bg", post_num, slide_num + 1>>}
    /\ removed \cap folder = {}

\* a run that returned its folder after a slide whose background was
\* created, whose render returned False, and whose background was removed
C11_Witness ==
    /\ wf_result = "output_folder"
    /\ \E t \in removed : <<t[2], t[3] - 1>> \in failed
    /\ \E t \in removed : <<t[2], t[3] - 1>> \notin failed /\ <<"slide", t[2], t[3]>> \in folder

(***************************************************************************)
(* RepeatSpec: a caller that calls the render functions one call after     *)
(* another, as run_workflow does for the slides of its posts, in one       *)
(* environment.  Every call runs in a new frame; what the model keeps from *)
(* one call to the next is what the process keeps: the fonts folder, the   *)
(* disk, the handles not yet collected, and the memory of the last canvas. *)
(***************************************************************************)
RepeatTexts == {<<>>, <<"a">>, <<"a", " ", "h">>}
RepeatKinds == {"missing", "png", "gif"}
RepeatWidths == {60, 1024}

\* the arguments of the call in progress; the background file is one of them
ArgsOf == <<fn, headline_text, slide_title, slide_text, bg, img_width>>

\* the call that has just returned, and what it produced; other: a call
\* with other arguments was made since
Finished == [args |-> ArgsOf, result |-> result, output |-> output, other |-> FALSE]

\* main.py lines 86 and 107-112: the next call of a render function.  Its
\* locals are unbound and it has written nothing yet.
RenderCall ==
    /\ pc = "done" /\ calls < MaxCalls
    /\ calls' = calls + 1
    /\ \/ /\ fn' = "headline" /\ pc' = "find_fonts"
          /\ headline_text' \in RepeatTexts
          /\ slide_title' = <<>> /\ slide_text' = <<>>
          /\ bg' = "png" /\ img_width' = headline_width
       \/ /\ fn' = "overlay" /\ pc' = "open"
          /\ headline_text' = <<>>
          /\ slide_title' \in RepeatTexts /\ slide_text' \in RepeatTexts
          /\ bg' \in RepeatKinds /\ img_width' \in RepeatWidths
    /\ \/ kept' = [Finished EXCEPT !.other = ArgsOf' # ArgsOf]
       \/ kept' = [kept EXCEPT !.other = @ \/ ArgsOf' # kept.args]
    /\ result' = "none" /\ raised' = "none" /\ output' = <<>>
    /\ wrap_at_char_count' = Unbound /\ wrap_title_at' = Unbound
    /\ wrap_exp_at' = Unbound /\ divisions' = 0
    /\ wrapped_text' = <<>> /\ wrapped_title' = <<>> /\ wrapped_explanation' = <<>>
    /\ total_height' = Unbound /\ max_line_width' = 0 /\ bg_bbox' = <<0, 0, 0, 0>>
    /\ current_y' = 0 /\ text_y' = 0
    /\ UNCHANGED <<fonts, face, disk, handle, drawn>>
    /\ UNCHANGED <<wvars, fvars, tvars, svars, avars>>

RepeatInit ==
    /\ fonts \in {[f \in FontFiles |-> "ok"],
                  [f \in FontFiles |-> IF f = "Inter-Regular.ttf" THEN "absent" ELSE "ok"]}
    /\ face = "inter"
    /\ disk = "ok"
    /\ HeadlineCall(RepeatTexts) \/ OverlayCall(RepeatTexts, RepeatKinds, RepeatWidths)
    /\ CallInit
    /\ calls = 1 /\ kept = NoCall
    /\ WrapIdle /\ WorkflowIdle /\ RunsIdle /\ StrategistIdle /\ ThreadIdle

RepeatNext ==
    \/ OvOpen \/ OvFindFonts \/ OvLoadFonts \/ OvWrapTitle \/ OvWrapExplanation
    \/ OvMeasure \/ OvRectangle \/ OvDrawTitleLine \/ OvGap \/ OvDrawExplanationLine
    \/ OvSave \/ Collect
    \/ HlFindFonts \/ HlLoadFonts \/ HlBadge \/ HlWrap \/ HlDrawText \/ HlFooter
    \/ HlSave
    \/ RenderCall

RepeatSpec == RepeatInit /\ [][RepeatNext]_vars

\* C12: a render call that has returned produced the same return value and
\* the same output file as every earlier call with the same arguments
\* (headline; or background, title and body), whatever calls were made in
\* between.
C12_SameInputsSameOutput ==
    (pc = "done" /\ kept.args = ArgsOf) =>
        (result = kept.result /\ output = kept.output)

\* the third call has written its slide, the first call had the same
\* arguments, and the call in between had others
C12_Witness ==
    /\ pc = "done" /\ calls = 3
    /\ kept.args = ArgsOf /\ kept.other
    /\ result = "True" /\ output # <<>> /\ Len(output[1].drawn) > 1

(***************************************************************************)
(* ConcurrentSpec: the workflow threads that telegram_webhook starts for    *)
(* /generate requests (app.py lines 178-182), each running run_workflow    *)
(* on one article with a headline and one symbolic slide, on one disk and  *)
(* one clock.  A step of a thread is one call that touches the disk.       *)
(***************************************************************************)
FileAt(d, dir, file) == {e \in d : e[1] = dir /\ e[2] = file}

\* open(file, "w") / save(file): the file is created or replaced
WriteFile(d, dir, file, r) == (d \ FileAt(d, dir, file)) \cup {<<dir, file, r>>}

\* the file is of another run
OfAnother(d, dir, file, r) == \E e \in FileAt(d, dir, file) : e[3] # r

\* main.py lines 21-23: output_<date>_<time to the second>
FolderName(r, t) == t

Step(r, from, to) ==
    /\ run_pc[r] = from
    /\ run_pc' = [run_pc EXCEPT ![r] = to]

\* app.py lines 179-182: the thread of a /generate request starts
TrStart(r) ==
    /\ Step(r, "off", "fetch")
    /\ UNCHANGED <<now, run_folder, dirs, clashes>>
    /\ UNCHANGED <<cvars, wvars, fvars, rvars, svars, avars>>

\* main.py lines 53-56: articles, or none
TrFetch(r) ==
    /\ \/ Step(r, "fetch", "mkdir")
       \/ Step(r, "fetch", "done")
    /\ UNCHANGED <<now, run_folder, dirs, clashes>>
    /\ UNCHANGED <<cvars, wvars, fvars, rvars, svars, avars>>

\* main.py lines 21-27 and 58: os.makedirs(folder_name, exist_ok=True)
TrCreateFolder(r) ==
    /\ Step(r, "mkdir", "headline")
    /\ run_folder' = [run_folder EXCEPT ![r] = FolderName(r, now)]
    /\ UNCHANGED <<now, dirs, clashes>>
    /\ UNCHANGED <<cvars, wvars, fvars, rvars, svars, avars>>

\* what a write of a run does to the disk and to the record of clashes
Writes(r, file) ==
    /\ dirs' = WriteFile(dirs, run_folder[r], file, r)
    /\ clashes' = IF OfAnother(dirs, run_folder[r], file, r)
                  THEN clashes \cup {<<"overwritten", r, file>>}
                  ELSE clashes

\* main.py lines 81-86: post_01_slide_01.png
TrHeadline(r) ==
    /\ Step(r, "headline", "image")
    /\ \/ Writes(r, "post_01_slide_01.png")
       \/ UNCHANGED <<dirs, clashes>>
    /\ UNCHANGED <<now, run_folder>>
    /\ UNCHANGED <<cvars, wvars, fvars, rvars, svars, avars>>

\* main.py lines 95-100 and 114-117: temp_bg_01_2.png, or no background
TrCreateImage(r) ==
    /\ \/ Step(r, "image", "composite") /\ Writes(r, "temp_bg_01_2.png")
       \/ Step(r, "image", "caption") /\ UNCHANGED <<dirs, clashes>>
    /\ UNCHANGED <<now, run_folder>>
    /\ UNCHANGED <<cvars, wvars, fvars, rvars, svars, avars>>

\* main.py lines 107-112: add_text_to_image writes post_01_slide_02.png, or
\* returns False; it returns False when the background is not there
TrComposite(r) ==
    /\ Step(r, "composite", "remove")
    /\ \/ /\ FileAt(dirs, run_folder[r], "temp_bg_01_2.png") # {}
          /\ Writes(r, "post_01_slide_02.png")
       \/ UNCHANGED <<dirs, clashes>>
    /\ UNCHANGED <<now, run_folder>>
    /\ UNCHANGED <<cvars, wvars, fvars, rvars, svars, avars>>

\* main.py line 113: os.remove(bg_image_path) raises FileNotFoundError when
\* the file is not there
TrRemove(r) ==
    /\ IF FileAt(dirs, run_folder[r], "temp_bg_01_2.png") = {}
       THEN Step(r, "remove", "raised") /\ UNCHANGED <<dirs, clashes>>
       ELSE /\ Step(r, "remove", "caption")
            /\ dirs' = dirs \ FileAt(dirs, run_folder[r], "temp_bg_01_2.png")
            /\ clashes' = IF OfAnother(dirs, run_folder[r], "temp_bg_01_2.png", r)
                          THEN clashes \cup {<<"removed", r, "temp_bg_01_2.png">>}
                          ELSE clashes
    /\ UNCHANGED <<now, run_folder>>
    /\ UNCHANGED <<cvars, wvars, fvars, rvars, svars, avars>>

\* main.py lines 119-126: post_01_caption.txt, and the return
TrSaveCaption(r) ==
    /\ Step(r, "caption", "done")
    /\ Writes(r, "post_01_caption.txt")
    /\ UNCHANGED <<now, run_folder>>
    /\ UNCHANGED <<cvars, wvars, fvars, rvars, svars, avars>>

\* a second passes
Tick ==
    /\ now < MaxClock
    /\ now' = now + 1
    /\ UNCHANGED <<run_pc, run_folder, dirs, clashes>>
    /\ UNCHANGED <<cvars, wvars, fvars, rvars, svars, avars>>

ConcurrentInit ==
    /\ RunsIdle
    /\ CompositorIdle /\ WrapIdle /\ WorkflowIdle /\ RepeatIdle
    /\ StrategistIdle /\ ThreadIdle

ConcurrentNext ==
    \/ Tick
    \/ \E r \in Runs :
         \/ TrStart(r) \/ TrFetch(r) \/ TrCreateFolder(r) \/ TrHeadline(r)
         \/ TrCreateImage(r) \/ TrComposite(r) \/ TrRemove(r) \/ TrSaveCaption(r)

ConcurrentSpec == ConcurrentInit /\ [][ConcurrentNext]_vars

\* C15 as stated: no two runs have the same output folder, and no run
\* overwrites or removes a file that another run wrote.
C15_RunsHaveOwnFolders ==
    /\ \A r1, r2 \in Runs :
          (r1 # r2 /\ run_folder[r1] # Unbound /\ run_folder[r2] # Unbound) =>
              run_folder[r1] # run_folder[r2]
    /\ clashes = {}

\* the run produced post content: a slide or a caption file
ContentProduced == \E f \in folder : f[1] \in {"slide", "caption"}

\* C16 as stated: when run_workflow has returned, it returned None if no
\* article was fetched, and it returned the folder path only if the run
\* produced post content (a slide or a caption file).
C16_FolderOnlyWithContent ==
    (wf_pc = "done" /\ wf_raised = "none") =>
        /\ wf_result \in {"None", "output_folder"}
        /\ articles = 0 => wf_result = "None"
        /\ wf_result = "output_folder" => ContentProduced

(***************************************************************************)
(* StrategySpec: run_workflow calling generate_content_strategy for one    *)
(* article after another (main.py line 71).  The function is wrapped by    *)
(* tenacity's retry (strategist.py lines 83-87): the wrapper runs the      *)
(* function body, and runs it again when the exception that left the body  *)
(* is one it retries on and attempts are left.                             *)
(***************************************************************************)
\* stop_after_attempt(5)
MaxAttempts == 5

\* what model.generate_content and json.loads do: a JSON document, a text
\* that is no JSON, a rate limit, another API error
ApiOutcomes == {"json", "text", "ResourceExhausted", "ServiceUnavailable"}

\* the exception raised inside the try block of lines 105-114
ApiException(outcome) ==
    CASE outcome = "json" -> "none"
      [] outcome = "text" -> "JSONDecodeError"
      [] OTHER -> outcome

\* line 115: except Exception as e
BodyCatches(exc) == TRUE

\* line 84: retry_if_exception_type(google_exceptions.ResourceExhausted)
RetryOn(exc) == exc = "ResourceExhausted"

Last(log) == log[Len(log)]

\* main.py line 71: the call for the next article
StCall ==
    /\ st_pc = "loop" /\ st_article < MaxArticles
    /\ st_article' = st_article + 1
    /\ attempts' = 0 /\ st_exc' = "none" /\ st_ret' = "none"
    /\ st_pc' = "attempt"
    /\ UNCHANGED <<st_model, st_log>>
    /\ UNCHANGED <<cvars, wvars, fvars, rvars, tvars, avars>>

\* lines 88-91: the wrapper runs the body; without a model it returns None
StAttempt ==
    /\ st_pc = "attempt"
    /\ attempts' = attempts + 1
    /\ IF st_model
       THEN st_pc' = "scrape" /\ UNCHANGED st_ret
       ELSE st_pc' = "decide" /\ st_ret' = "None"
    /\ UNCHANGED <<st_model, st_article, st_exc, st_log>>
    /\ UNCHANGED <<cvars, wvars, fvars, rvars, tvars, avars>>

\* lines 93-103: the article text, or the headline alone when scraping
\* gave nothing; _scrape_article_content raises nothing
StScrape ==
    /\ st_pc = "scrape"
    /\ \E scraped \in {"article", "headline"} : st_log' = Append(st_log, scraped)
    /\ st_pc' = "generate"
    /\ UNCHANGED <<st_model, st_article, attempts, st_exc, st_ret>>
    /\ UNCHANGED <<cvars, wvars, fvars, rvars, tvars, avars>>

\* lines 105-117: the model call and the parsing, in the try block
StGenerate ==
    /\ st_pc = "generate"
    /\ \E outcome \in ApiOutcomes :
         /\ st_log' = Append(st_log, outcome)
         /\ IF ApiException(outcome) = "none"
            THEN st_ret' = "strategy" /\ UNCHANGED st_exc
            ELSE IF BodyCatches(ApiException(outcome))
                 THEN st_ret' = "None" /\ UNCHANGED st_exc
                 ELSE st_exc' = ApiException(outcome) /\ UNCHANGED st_ret
    /\ st_pc' = "decide"
    /\ UNCHANGED <<st_model, st_article, attempts>>
    /\ UNCHANGED <<cvars, wvars, fvars, rvars, tvars, avars>>

\* lines 83-87: the wrapper after the body: wait and run it again, or give
\* the caller the value, the exception, or RetryError after the last attempt
StRetry ==
    /\ st_pc = "decide"
    /\ IF st_exc # "none" /\ RetryOn(st_exc) /\ attempts < MaxAttempts
       THEN st_pc' = "attempt" /\ st_exc' = "none" /\ UNCHANGED st_ret
       ELSE /\ st_pc' = "loop"
            /\ st_ret' = IF st_exc = "none" THEN st_ret
                         ELSE IF RetryOn(st_exc) THEN "RetryError"
                         ELSE st_exc
            /\ UNCHANGED st_exc
    /\ UNCHANGED <<st_model, st_article, attempts, st_log>>
    /\ UNCHANGED <<cvars, wvars, fvars, rvars, tvars, avars>>

StrategyInit ==
    /\ st_model \in BOOLEAN
    /\ st_pc = "loop" /\ st_article = 0 /\ attempts = 0
    /\ st_exc = "none" /\ st_ret = "none" /\ st_log = <<>>
    /\ CompositorIdle /\ WrapIdle /\ WorkflowIdle /\ RepeatIdle /\ RunsIdle /\ ThreadIdle

StrategyNext == StCall \/ StAttempt \/ StScrape \/ StGenerate \/ StRetry

StrategySpec == StrategyInit /\ [][StrategyNext]_vars

\* the call for the article has ended
StrategyEnded == st_pc = "loop" /\ st_article > 0

\* C17 as stated: a model call that fails with ResourceExhausted is attempted
\* again, up to 5 attempts: when the call for an article has ended and its
\* last model call failed with ResourceExhausted, that was the fifth attempt.
C17_RetriesOnRateLimit ==
    (StrategyEnded /\ st_log # <<>> /\ Last(st_log) = "ResourceExhausted") =>
        attempts = MaxAttempts

(***************************************************************************)
(* ThreadSpec: the thread that telegram_webhook starts for a /generate     *)
(* request, running run_workflow_and_reply (app.py lines 71-133).          *)
(* th_sent holds what was submitted to the event loop.  The thread is      *)
(* scheduled, and every call it makes returns or raises.                   *)
(***************************************************************************)
ClosingNotices == {"failed", "no_content", "delivered", "error"}

\* a handler that names the I/O errors only
HandlerCatchesIOErrors(exc) == exc = "OSError"

\* line 129: except Exception as e
HandlerCatches(exc) == TRUE

\* send_telegram_message / send_telegram_photo (lines 47-68): the coroutine
\* is handed to the event loop; the bot exists, or the webhook would have
\* started no thread (line 138)
Submit(sent, what) == Append(sent, what)

\* the try block is left by an exception
ThRaise(exc) == th_pc' = "handler" /\ th_exc' = exc

\* lines 153-182: the acknowledgement, and the thread
ThStart ==
    /\ th_pc = "off"
    /\ th_sent' = Submit(th_sent, "ack")
    /\ th_pc' = "workflow"
    /\ UNCHANGED <<th_left, th_exc>>
    /\ UNCHANGED <<cvars, wvars, fvars, rvars, tvars, svars>>

\* line 79: run_workflow returns None or the folder, or raises
ThRunWorkflow ==
    /\ th_pc = "workflow"
    /\ \/ th_pc' = "failed" /\ UNCHANGED th_exc
       \/ th_pc' = "list" /\ UNCHANGED th_exc
       \/ \E exc \in {"TypeError", "FileNotFoundError"} : ThRaise(exc)
    /\ UNCHANGED <<th_left, th_sent>>
    /\ UNCHANGED <<cvars, wvars, fvars, rvars, tvars, svars>>

\* lines 81-86
ThFailedNotice ==
    /\ th_pc = "failed"
    /\ th_sent' = Submit(th_sent, "failed")
    /\ th_pc' = "ended"
    /\ UNCHANGED <<th_left, th_exc>>
    /\ UNCHANGED <<cvars, wvars, fvars, rvars, tvars, svars>>

\* lines 92-96: the post numbers in the names of the files of the folder;
\* a name without "_" raises IndexError
ThList ==
    /\ th_pc = "list"
    /\ \/ \E n \in 0..MaxArticles :
            /\ th_left' = n
            /\ th_pc' = IF n = 0 THEN "no_content" ELSE "post"
            /\ UNCHANGED th_exc
       \/ ThRaise("IndexError") /\ UNCHANGED th_left
    /\ UNCHANGED th_sent
    /\ UNCHANGED <<cvars, wvars, fvars, rvars, tvars, svars>>

\* lines 96-100
ThNoContent ==
    /\ th_pc = "no_content"
    /\ th_sent' = Submit(th_sent, "no_content")
    /\ th_pc' = "ended"
    /\ UNCHANGED <<th_left, th_exc>>
    /\ UNCHANGED <<cvars, wvars, fvars, rvars, tvars, svars>>

RECURSIVE SubmitPhotos(_, _)
SubmitPhotos(sent, n) == IF n = 0 THEN sent ELSE SubmitPhotos(Submit(sent, "photo"), n - 1)

\* lines 102-125: one post: its header, its caption when the file exists,
\* its slides.  int(post_num_str) raises ValueError before the header is
\* sent; reading the caption raises OSError after it.
ThPost ==
    /\ th_pc = "post" /\ th_left > 0
    /\ \/ ThRaise("ValueError") /\ UNCHANGED <<th_left, th_sent>>
       \/ /\ ThRaise("OSError")
          /\ th_sent' = Submit(th_sent, "header")
          /\ UNCHANGED th_left
       \/ \E caption \in BOOLEAN, slides \in 0..(MaxSlides + 1) :
            /\ th_sent' = SubmitPhotos(IF caption
                                       THEN Submit(Submit(th_sent, "header"), "caption")
                                       ELSE Submit(th_sent, "header"), slides)
            /\ th_left' = th_left - 1
            /\ UNCHANGED <<th_pc, th_exc>>
    /\ UNCHANGED <<cvars, wvars, fvars, rvars, tvars, svars>>

\* line 127
ThDelivered ==
    /\ th_pc = "post" /\ th_left = 0
    /\ th_sent' = Submit(th_sent, "delivered")
    /\ th_pc' = "ended"
    /\ UNCHANGED <<th_left, th_exc>>
    /\ UNCHANGED <<cvars, wvars, fvars, rvars, tvars, svars>>

\* lines 129-133: the handler of the try block; an exception it does not
\* catch ends the thread
ThHandler ==
    /\ th_pc = "handler"
    /\ th_sent' = IF HandlerCatches(th_exc) THEN Submit(th_sent, "error") ELSE th_sent
    /\ th_pc' = "ended"
    /\ UNCHANGED <<th_left, th_exc>>
    /\ UNCHANGED <<cvars, wvars, fvars, rvars, tvars, svars>>

ThreadInit ==
    /\ ThreadIdle
    /\ CompositorIdle /\ WrapIdle /\ WorkflowIdle /\ RepeatIdle /\ RunsIdle
    /\ StrategistIdle

ThreadNext ==
    \/ ThStart \/ ThRunWorkflow \/ ThFailedNotice \/ ThList \/ ThNoContent
    \/ ThPost \/ ThDelivered \/ ThHandler

ThreadSpec == ThreadInit /\ [][ThreadNext]_vars /\ WF_vars(ThreadNext)

\* how many closing notices were submitted
Closings(sent) == Cardinality({i \in 1..Len(sent) : sent[i] \in ClosingNotices})

====
